---- MODULE Spec2Model ----
(***************************************************************************)
(* Volumetric geometry and patch-extraction pipeline of the CBCT-to-CT     *)
(* datasets (projects/nki_cervix_cbct_to_ct/cbcttoct_dataset.py) and the   *)
(* helpers it calls (the modules under midaGAN.data.utils).                *)
(*                                                                         *)
(* Arrays are indexed (z, y, x), 0-based, as numpy arrays are.  A focal    *)
(* proportion is a rational [num, den].  Normalised intensities are kept   *)
(* as exact rationals over the fixed denominator hu_max - hu_min.          *)
(***************************************************************************)
EXTENDS Integers, Sequences, FiniteSets, TLC

\* ------------------------------------------------------------------ bounds
\* Largest extent of a volume on one axis.
MaxDim == 3
\* Largest patch extent on one axis in the sampler specifications.
MaxPatch == 2

\* Patch extent on every axis in the dataset specifications.
PatchDim == 2
\* Largest number of files of one modality in a case.
MaxFiles == 2
\* Parallel workers, calls per worker, and the states of the model generator.
NumWorkers == 2
MaxCalls == 2
RngModulus == 8
\* The Trainer: the largest n_iters and n_iters_decay, the largest
\* count_start_iter, the most batches a loader yields, the largest
\* checkpoint_freq.
MaxIters == 2
MaxStart == 3
MaxBatches == 3
MaxFreq == 2
\* How far outside the HU range the intensities of the normaliser check go.
MaxExcess == 2

\* ------------------------------------------------------- program constants
\* Air sentinel written outside the body mask and into the canvas.
Air == -1024
\* hounsfield_units_range
hu_min == -1024
hu_max == 2048
\* Body-mask thresholds of the two modalities.
cbct_mask_threshold == -700
ct_mask_threshold == -300
\* Grey-level offset subtracted from a CBCT to approximate HU.
GreyOffset == 1024

Axes == 1..3

\* ------------------------------------------------------------ shape helpers
Shapes(lo, hi) == { <<z, y, x>> : z \in lo..hi, y \in lo..hi, x \in lo..hi }

\* numpy's (volume_shape < target_shape).any()
SmallerOnSomeAxis(shape, target) == \E a \in Axes : shape[a] < target[a]

AtLeast(shape, target) == \A a \in Axes : shape[a] >= target[a]

\* ------------------------------------------- Stochastic Focal Patch Sampler
\* Focal proportions p = num/den in [0,1]; 1/5 is the configured default.
PSet == { [num |-> 0, den |-> 1], [num |-> 1, den |-> 5],
          [num |-> 1, den |-> 2], [num |-> 1, den |-> 1] }

CeilDiv(a, b) == (a + b - 1) \div b

\* Valid starting offsets on one axis are 0..len, len = dim - patch_dim.
ValidRangeLength(dim, pdim) == dim - pdim

\* Smallest and largest integer of the focal sub-interval
\* [len/2 - p*len/2, len/2 + p*len/2].
FocalLo(len, p) == CeilDiv(len * (p.den - p.num), 2 * p.den)
FocalHi(len, p) == (len * (p.den + p.num)) \div (2 * p.den)

\* A plausible slip: the focal proportion is ignored, the whole range is used.
FocalStartsWholeRange(dim, pdim, p) == 0..ValidRangeLength(dim, pdim)

\* A plausible slip: the upper endpoint is exclusive (randrange for randint).
FocalStartsExclusive(dim, pdim, p) ==
    LET len == ValidRangeLength(dim, pdim)
        lo  == FocalLo(len, p)
        hi  == FocalHi(len, p) - 1
    IN  IF lo <= hi THEN lo..hi ELSE {len \div 2}

\* A plausible slip: the centre is rounded up instead of down.
FocalStartsCeilCentre(dim, pdim, p) ==
    LET len == ValidRangeLength(dim, pdim)
        lo  == FocalLo(len, p)
        hi  == FocalHi(len, p)
    IN  IF lo <= hi THEN lo..hi ELSE {CeilDiv(len, 2)}

\* The offsets the sampler can draw on one axis: the integers of the focal
\* sub-interval, or the centre offset when the sub-interval holds no integer.
FocalStarts(dim, pdim, p) ==
    LET len == ValidRangeLength(dim, pdim)
        lo  == FocalLo(len, p)
        hi  == FocalHi(len, p)
    IN  IF lo <= hi THEN lo..hi ELSE {len \div 2}

\* The offset triples the sampler can draw for a volume shape.
StartTriples(shape, patch, p) ==
    { <<z, y, x>> : z \in FocalStarts(shape[1], patch[1], p),
                    y \in FocalStarts(shape[2], patch[2], p),
                    x \in FocalStarts(shape[3], patch[3], p) }

\* ------------------------------------------------------------------ arrays
Min(a, b) == IF a <= b THEN a ELSE b
Max(a, b) == IF a >= b THEN a ELSE b

\* The index triples of an array of the given shape.
Box(shape) ==
    { <<z, y, x>> : z \in 0..(shape[1] - 1), y \in 0..(shape[2] - 1),
                    x \in 0..(shape[3] - 1) }

Plus(i, off)  == <<i[1] + off[1], i[2] + off[2], i[3] + off[3]>>
Minus(i, off) == <<i[1] - off[1], i[2] - off[2], i[3] - off[3]>>

\* The array a[lo[1]:hi[1], lo[2]:hi[2], lo[3]:hi[3]]: a slice bound past the
\* end of an axis is clipped to the axis, as numpy and torch clip it.
Slice(a, lo, hi) ==
    LET start == [k \in Axes |-> Min(lo[k], a.shape[k])]
        stop  == [k \in Axes |-> Min(hi[k], a.shape[k])]
        shape == [k \in Axes |-> Max(0, stop[k] - start[k])]
    IN  [shape |-> shape, vox |-> [i \in Box(shape) |-> a.vox[Plus(i, start)]]]

\* torch.full(shape, value)
Full(shape, value) == [shape |-> shape, vox |-> [i \in Box(shape) |-> value]]

\* np.where(mask, a, value)
Where(mask, a, value) ==
    [shape |-> a.shape,
     vox   |-> [i \in Box(a.shape) |-> IF i \in mask THEN a.vox[i] ELSE value]]

\* An elementwise map, as torch applies clamp and the affine maps.
MapArray(f(_), a) ==
    [shape |-> a.shape, vox |-> [i \in Box(a.shape) |-> f(a.vox[i])]]

\* A volume as the volume-I/O provider hands it over: the voxel array, the
\* physical origin (z, y, x) and the (isotropic) voxel spacing.
MkVolume(arr, origin, spacing) ==
    [arr |-> arr, origin |-> origin, spacing |-> spacing]

\* sitk's GetSize() is (x, y, z).
GetSize(v) == <<v.arr.shape[3], v.arr.shape[2], v.arr.shape[1]>>

\* sitk_utils.get_npy(volume): the (z, y, x) array of the volume.
get_npy(v) == v.arr

\* sitk_utils.is_volume_smaller_than(volume, target_shape)
is_volume_smaller_than(v, target) == SmallerOnSomeAxis(v.arr.shape, target)

\* volume[lo:hi] on a sitk volume: the array is cropped, the origin moves.
CropVolume(v, lo, hi) ==
    MkVolume(Slice(v.arr, lo, hi),
             [k \in Axes |-> v.origin[k] + lo[k] * v.spacing],
             v.spacing)

\* Tight bounding box (lo inclusive, hi exclusive) of a non-empty index set.
BoundsOf(S) ==
    [lo |-> [k \in Axes |-> CHOOSE m \in {i[k] : i \in S} :
                               \A i \in S : m <= i[k]],
     hi |-> [k \in Axes |-> 1 + CHOOSE m \in {i[k] : i \in S} :
                               \A i \in S : m >= i[k]]]

FullBounds(shape) == [lo |-> [k \in Axes |-> 0], hi |-> [k \in Axes |-> shape[k]]]

\* ------------------------------------------------------------ FOV Truncator
\* truncate_CBCT_based_on_fov: crop to the box enclosing the valid content
\* (voxels above the fill value); unchanged when no voxel is valid.
truncate_CBCT_based_on_fov(v) ==
    LET valid == { i \in Box(v.arr.shape) : v.arr.vox[i] > Air }
    IN  IF valid = {} THEN v
        ELSE CropVolume(v, BoundsOf(valid).lo, BoundsOf(valid).hi)

\* ---------------------------------------------------------- Scope Registrar
FloorDiv(a, b) == IF a >= 0 THEN a \div b ELSE -CeilDiv(-a, b)

\* The voxel range of the secondary volume that overlaps the physical extent
\* of the primary on one axis.
OverlapLo(sec, prim, k) ==
    Max(0, FloorDiv(prim.origin[k] - sec.origin[k], sec.spacing))
OverlapHi(sec, prim, k) ==
    Min(sec.arr.shape[k],
        -FloorDiv(-(prim.origin[k] + prim.arr.shape[k] * prim.spacing
                      - sec.origin[k]), sec.spacing))

\* A plausible slip: an empty overlap is cropped like any other and yields an
\* empty volume.
truncate_CT_always_crops(ct, cbct) ==
    CropVolume(ct, [k \in Axes |-> OverlapLo(ct, cbct, k)],
                   [k \in Axes |-> Max(OverlapLo(ct, cbct, k),
                                       OverlapHi(ct, cbct, k))])

\* truncate_CT_to_scope_of_CBCT(CT, CBCT): crop the CT to its overlap with
\* the CBCT; an empty overlap keeps the CT unmodified.
truncate_CT_to_scope_of_CBCT(ct, cbct) ==
    LET lo == [k \in Axes |-> OverlapLo(ct, cbct, k)]
        hi == [k \in Axes |-> OverlapHi(ct, cbct, k)]
    IN  IF \E k \in Axes : lo[k] >= hi[k] THEN ct
        ELSE CropVolume(ct, lo, hi)

\* ------------------------------------------------------ Body Mask & Bounder
\* get_body_mask_and_bound(volume, HU_threshold): the foreground voxels and
\* their tight bounding box; the full volume's box when the mask is empty.
BodyMask(a, threshold) == { i \in Box(a.shape) : a.vox[i] > threshold }

BodyBounds(a, threshold) ==
    IF BodyMask(a, threshold) = {} THEN FullBounds(a.shape)
    ELSE BoundsOf(BodyMask(a, threshold))

\* A plausible slip: the bound toggle is ignored and the volume never cropped.
apply_body_mask_and_bound_nocrop(a, mask_on, bound_on, threshold) ==
    IF mask_on THEN Where(BodyMask(a, threshold), a, Air) ELSE a

\* apply_body_mask_and_bound(array, apply_mask, apply_bound, HU_threshold)
apply_body_mask_and_bound(a, mask_on, bound_on, threshold) ==
    LET masked == IF mask_on THEN Where(BodyMask(a, threshold), a, Air) ELSE a
        b      == BodyBounds(a, threshold)
    IN  IF bound_on THEN Slice(masked, b.lo, b.hi) ELSE masked

\* --------------------------------------------------------------- Size Guard
\* pad(patch_size, volume): the canvas is the volume's shape raised to the
\* patch size on each deficient axis, filled with the background value; the
\* volume is written at some offset inside it.
PadShape(patch, shape) == [k \in Axes |-> Max(patch[k], shape[k])]

PadOffsets(patch, shape) ==
    { <<z, y, x>> : z \in 0..(PadShape(patch, shape)[1] - shape[1]),
                    y \in 0..(PadShape(patch, shape)[2] - shape[2]),
                    x \in 0..(PadShape(patch, shape)[3] - shape[3]) }

\* A plausible slip: only the z axis is padded.
PadAtZOnly(patch, a, off) ==
    LET shape == <<Max(patch[1], a.shape[1]), a.shape[2], a.shape[3]>>
        zoff  == <<off[1], 0, 0>>
    IN  [shape |-> shape,
         vox   |-> [i \in Box(shape) |->
                      IF Minus(i, zoff) \in Box(a.shape)
                      THEN a.vox[Minus(i, zoff)] ELSE Air]]

PadAt(patch, a, off) ==
    LET shape == PadShape(patch, a.shape)
    IN  [shape |-> shape,
         vox   |-> [i \in Box(shape) |->
                      IF Minus(i, off) \in Box(a.shape)
                      THEN a.vox[Minus(i, off)] ELSE Air]]

PadResults(patch, a) == { PadAt(patch, a, off) : off \in PadOffsets(patch, a.shape) }

\* --------------------------------------------------------------- Normalizer
\* A plausible slip: the clamp is left out before the normalisation.
ClampNone(x) == x

\* torch.clamp(x, hu_min, hu_max)
Clamp(x) == Min(Max(x, hu_min), hu_max)

HuRange == hu_max - hu_min

\* min_max_normalize maps [hu_min, hu_max] affinely onto [-1, 1]; a normalised
\* value is kept as its numerator over the denominator HuRange.
NormalizeValue(x) == 2 * (x - hu_min) - HuRange

\* min_max_denormalize, the inverse affine map.
DenormalizeValue(n) == ((n + HuRange) \div 2) + hu_min

min_max_normalize(a) ==
    [shape |-> a.shape, vox |-> [i \in Box(a.shape) |-> NormalizeValue(a.vox[i])]]

min_max_denormalize(a) ==
    [shape |-> a.shape, vox |-> [i \in Box(a.shape) |-> DenormalizeValue(a.vox[i])]]

ClampArray(a) ==
    [shape |-> a.shape, vox |-> [i \in Box(a.shape) |-> Clamp(a.vox[i])]]

\* tensor.unsqueeze(0): a leading channel axis of extent 1.
Unsqueeze(a) == [shape |-> <<1>> \o a.shape, vox |-> a.vox]

\* ------------------------------------------------------------ files on disk
InBox(i, lo, hi) == \A k \in Axes : lo[k] <= i[k] /\ i[k] < hi[k]

\* A synthetic scan in HU: air outside the field of view, soft background
\* inside it, and a body whose voxel values name their own position.
Phantom(shape, fovLo, fovHi, bodyLo, bodyHi, bodyBase) ==
    [shape |-> shape,
     vox   |-> [i \in Box(shape) |->
                  IF ~InBox(i, fovLo, fovHi) THEN Air
                  ELSE IF InBox(i, bodyLo, bodyHi)
                       THEN bodyBase + 100 * i[1] + 10 * i[2] + i[3]
                       ELSE -1000]]

\* The same scan with every second voxel of the body box left as background,
\* so that the body does not fill its bounding box.
SparsePhantom(shape, fovLo, fovHi, bodyLo, bodyHi, bodyBase) ==
    [shape |-> shape,
     vox   |-> [i \in Box(shape) |->
                  IF ~InBox(i, fovLo, fovHi) THEN Air
                  ELSE IF InBox(i, bodyLo, bodyHi)
                          /\ (i[1] + i[2] + i[3]) % 2
                               = (bodyLo[1] + bodyLo[2] + bodyLo[3]) % 2
                       THEN bodyBase + 100 * i[1] + 10 * i[2] + i[3]
                       ELSE -1000]]

\* A CBCT file stores grey levels: HU + GreyOffset.
Grey(a) == [shape |-> a.shape, vox |-> [i \in Box(a.shape) |-> a.vox[i] + GreyOffset]]

Cube(d) == <<d, d, d>>
Zero3 == <<0, 0, 0>>

\* The CBCT files a case can hold: a full scan, a scan whose body is smaller
\* than a patch, a scan with too few slices, a scan whose field of view
\* leaves too few slices, a scan with too few rows.
CBCTFileIds == {1, 2, 3, 4, 5}
CBCTPhantom(path) ==
    CASE path = 1 ->
           MkVolume(Grey(Phantom(Cube(MaxDim), Zero3, Cube(MaxDim),
                                 Zero3, Cube(MaxDim), 100)), Zero3, 1)
      [] path = 2 ->
           MkVolume(Grey(Phantom(Cube(MaxDim), Zero3, Cube(MaxDim),
                                 Cube(1), Cube(MaxDim - 1), 100)), Zero3, 1)
      [] path = 3 ->
           MkVolume(Grey(Phantom(<<PatchDim - 1, MaxDim, MaxDim>>, Zero3, Cube(MaxDim),
                                 Zero3, Cube(MaxDim), 100)), Zero3, 1)
      [] path = 4 ->
           MkVolume(Grey(Phantom(Cube(MaxDim), Zero3, <<PatchDim - 1, MaxDim, MaxDim>>,
                                 Zero3, Cube(MaxDim), 100)), Zero3, 1)
      [] path = 5 ->
           MkVolume(Grey(Phantom(<<MaxDim, PatchDim - 1, MaxDim>>, Zero3, Cube(MaxDim),
                                 Zero3, Cube(MaxDim), 100)), Zero3, 1)

\* The CT files a case can hold: a scan reaching beyond the CBCT, a scan whose
\* body is smaller than a patch, a scan with too few slices, a scan that does
\* not overlap the CBCT, a scan with too few rows.
CTFileIds == {1, 2, 3, 4, 5}
CTPhantom(path) ==
    CASE path = 1 ->
           MkVolume(Phantom(<<MaxDim + 1, MaxDim, MaxDim>>, Zero3, Cube(MaxDim + 1),
                            Zero3, Cube(MaxDim + 1), 100), <<-1, 0, 0>>, 1)
      [] path = 2 ->
           MkVolume(Phantom(Cube(MaxDim), Zero3, Cube(MaxDim),
                            Cube(1), Cube(MaxDim - 1), 100), Zero3, 1)
      [] path = 3 ->
           MkVolume(Phantom(<<PatchDim - 1, MaxDim, MaxDim>>, Zero3, Cube(MaxDim),
                            Zero3, Cube(MaxDim), 100), Zero3, 1)
      [] path = 4 ->
           MkVolume(Phantom(Cube(MaxDim), Zero3, Cube(MaxDim),
                            Zero3, Cube(MaxDim), 100), <<100, 0, 0>>, 1)
      [] path = 5 ->
           MkVolume(Phantom(<<MaxDim, PatchDim - 1, MaxDim>>, Zero3, Cube(MaxDim),
                            Zero3, Cube(MaxDim), 100), Zero3, 1)

\* sitk_utils.load(path): the volume stored under a path.
CBCTDisk == [path \in CBCTFileIds |-> CBCTPhantom(path)]
CTDisk   == [path \in CTFileIds |-> CTPhantom(path)]
CBCTFile(path) == CBCTDisk[path]
CTFile(path)   == CTDisk[path]

\* make_recursive_dataset_of_files returns a sorted list of paths.
SortedLists(ids, maxLen) ==
    { l \in UNION { [1..n -> ids] : n \in 0..maxLen } :
        \A j \in 1..(Len(l) - 1) : l[j] < l[j + 1] }

Elems(l) == { l[j] : j \in 1..Len(l) }

\* ------------------------------------------------------------------- state
\* Fields of the patch sampler: self.patch_size, self.focal_region_proportion.
VARIABLES patch_size, focal_region_proportion

\* The offset-drawing step on its own: the shape of the volume handed in, the
\* offset triple of the last call and of the call before it.
VARIABLES s_pc, s_shape, s_start, s_prev

\* The pad step on its own: the array handed to pad, the array the caller
\* holds afterwards, and the padding offsets the caller holds afterwards.
VARIABLES pad_pc, pad_in, pad_out, pad_record

\* Fields of the training dataset: self.pad, self.apply_mask,
\* self.apply_bound, and the sorted file lists of the case that is indexed,
\* self.paths_CBCT[patient] and self.paths_CT[patient].
VARIABLES pad, apply_mask, apply_bound, paths_CBCT, paths_CT

\* One call of the training __getitem__: its position, its locals path_CBCT,
\* path_CT, CBCT and CT, the local list the replacement search consumes, the
\* messages it logged, the exception it raised and the item it returned.
\* handed keeps the two arrays that were passed to get_patch_pair.
VARIABLES pc, path_CBCT, path_CT, CBCT, CT, replacement_paths, log, err,
          handed, item

\* One call of the inference __getitem__ followed by save: the position, the
\* path of the item, the locals volume and metadata, the tensor returned, and
\* the full-size volume that save wrote.
VARIABLES inf_pc, inf_path, volume, metadata, tensor, full_tensor, written

\* Parallel workers, each a process with its own copy of the state of the
\* generator behind the random module, and the files each has chosen so far.
VARIABLES rng, drawn

\* One Trainer: the position in run, the configuration read by __init__, the
\* range self.iters (start, end), self.iter_idx, the pair zip handed to the
\* loop body, the number of batches the loader has yet to yield, the calls
\* made on the model and the tracker so far, and the calls of tracker.close.
VARIABLES t_pc, conf, iters, iter_idx, zipped, loader, trace, closes

samplerFields == <<patch_size, focal_region_proportion>>
workerVars    == <<rng, drawn>>
trainerVars   == <<t_pc, conf, iters, iter_idx, zipped, loader, trace, closes>>
samplerVars   == <<s_pc, s_shape, s_start, s_prev>>
padVars       == <<pad_pc, pad_in, pad_out, pad_record>>
datasetFields == <<pad, apply_mask, apply_bound, paths_CBCT, paths_CT>>
callVars      == <<pc, path_CBCT, path_CT, CBCT, CT, replacement_paths, log,
                   err, handed, item>>
trainVars     == <<datasetFields, callVars>>
inferVars     == <<inf_pc, inf_path, volume, metadata, tensor, full_tensor, written>>
vars == <<samplerFields, samplerVars, padVars, trainVars, inferVars, workerVars, trainerVars>>

\* What a step of the training __getitem__ leaves alone besides its locals.
trainFrame == <<datasetFields, samplerFields, samplerVars, padVars, inferVars,
                workerVars, trainerVars>>
\* What a step of the inference dataset leaves alone.
inferFrame == <<patch_size, focal_region_proportion, pad, paths_CBCT, paths_CT,
                callVars, samplerVars, padVars, workerVars, trainerVars>>

NoArray  == [shape |-> <<0, 0, 0>>, vox |-> <<>>]
NoRecord == <<-1, -1, -1>>

\* Idle values of the variables a specification does not use.
SamplerIdle ==
    /\ s_pc = "idle" /\ s_shape = <<0, 0, 0>>
    /\ s_start = <<-1, -1, -1>> /\ s_prev = <<-1, -1, -1>>
PadIdle ==
    /\ pad_pc = "idle" /\ pad_in = NoArray /\ pad_out = NoArray
    /\ pad_record = NoRecord

\* Python's None, and the state of a call's locals before they are bound.
None == [none |-> TRUE]
NoPath == 0
NoItem == [A |-> None, B |-> None]
NoError == "none"

CallIdle ==
    /\ path_CBCT = NoPath /\ path_CT = NoPath
    /\ CBCT = None /\ CT = None
    /\ replacement_paths = {} /\ log = {} /\ err = NoError
    /\ handed = NoItem /\ item = NoItem
TrainIdle ==
    /\ pad = FALSE /\ apply_mask = FALSE /\ apply_bound = FALSE
    /\ paths_CBCT = <<>> /\ paths_CT = <<>>
    /\ pc = "idle"
    /\ CallIdle
NoMetadata == [none |-> TRUE]
InferIdle ==
    /\ inf_pc = "idle" /\ inf_path = None
    /\ volume = None /\ metadata = NoMetadata
    /\ tensor = None /\ written = None
    /\ full_tensor = None

WorkersIdle == rng = <<>> /\ drawn = <<>>

TrainerIdle ==
    /\ t_pc = "idle" /\ conf = None /\ iters = None /\ iter_idx = 0
    /\ zipped = None /\ loader = None /\ trace = <<>> /\ closes = 0

NoStart == <<-1, -1, -1>>

\* The end-to-end scenario of the specification: volume (40,50,50),
\* patch (32,32,32), focal proportion 0.2.
ScenarioShape == <<40, 50, 50>>
ScenarioPatch == <<32, 32, 32>>
ScenarioP     == [num |-> 1, den |-> 5]

\* --------------------------------------------- the offset draw, on its own
InitSampler ==
    /\ PadIdle
    /\ TrainIdle
    /\ InferIdle
    /\ WorkersIdle
    /\ TrainerIdle
    /\ s_pc = "ready"
    /\ s_start = NoStart
    /\ s_prev = NoStart
    /\ \/ /\ s_shape \in Shapes(1, MaxDim)
          /\ patch_size \in Shapes(1, MaxPatch)
          /\ focal_region_proportion \in PSet
       \/ /\ s_shape = ScenarioShape
          /\ patch_size = ScenarioPatch
          /\ focal_region_proportion = ScenarioP

\* One draw of the starting offsets; the sampler can be called again.
PickStart ==
    /\ s_pc \in {"ready", "sampled"}
    /\ AtLeast(s_shape, patch_size)
    /\ s_start' \in StartTriples(s_shape, patch_size, focal_region_proportion)
    /\ s_prev' = s_start
    /\ s_pc' = "sampled"
    /\ UNCHANGED <<s_shape, samplerFields, padVars, trainVars, inferVars,
                   workerVars, trainerVars>>

\* A volume smaller than the patch on some axis has no valid offset: fatal.
PickStartRaise ==
    /\ s_pc = "ready"
    /\ SmallerOnSomeAxis(s_shape, patch_size)
    /\ s_pc' = "raised"
    /\ UNCHANGED <<s_shape, s_start, s_prev, samplerFields, padVars, trainVars, inferVars,
                   workerVars, trainerVars>>

NextSampler == PickStart \/ PickStartRaise

SpecSampler == InitSampler /\ [][NextSampler]_vars

\* ------------------------------------------------- claims on the offset draw
RangeLen(a) == ValidRangeLength(s_shape[a], patch_size[a])

\* o lies in the real interval [len/2 - p*len/2, len/2 + p*len/2].
InFocalInterval(o, len, p) ==
    /\ 2 * p.den * o >= len * (p.den - p.num)
    /\ 2 * p.den * o <= len * (p.den + p.num)

InScenario ==
    /\ s_shape = ScenarioShape
    /\ patch_size = ScenarioPatch
    /\ focal_region_proportion = ScenarioP

\* The scenario's windows: length 0.2 * 8 around 4 on z, 0.2 * 18 around 9
\* on y and x.
ScenarioWindows ==
    /\ 10 * s_start[1] >= 32 /\ 10 * s_start[1] <= 48
    /\ \A a \in {2, 3} : 10 * s_start[a] >= 72 /\ 10 * s_start[a] <= 108

C7_ExactCentre ==
    (s_pc = "sampled" /\ focal_region_proportion.num = 0) =>
        /\ \A a \in Axes : 2 * s_start[a] = RangeLen(a)
        /\ s_prev # NoStart => s_start = s_prev

\* C7 amended: with p = 0 the offset is the centre offset of the valid range
\* (its midpoint when dim - patch_dim is even, an integer within 1/2 of the
\* midpoint when it is odd), and two calls return the same triple.
C7_CentreOffsetDeterministic ==
    (s_pc = "sampled" /\ focal_region_proportion.num = 0) =>
        /\ \A a \in Axes :
              /\ 2 * s_start[a] - RangeLen(a) \in {-1, 0, 1}
              /\ RangeLen(a) % 2 = 0 => 2 * s_start[a] = RangeLen(a)
        /\ s_prev # NoStart => s_start = s_prev

\* Two calls with p = 0 on a volume with room on every axis.
C7_Witness ==
    /\ s_pc = "sampled"
    /\ focal_region_proportion.num = 0
    /\ s_prev # NoStart
    /\ \A a \in Axes : RangeLen(a) = 2

\* C8: with p = 1 the offsets the sampler can return on an axis are exactly
\* the integers 0..dim - patch_dim, both endpoints included.
C8_FullRangeAtOne ==
    (focal_region_proportion.num = focal_region_proportion.den
        /\ AtLeast(s_shape, patch_size)) =>
        /\ \A a \in Axes :
              FocalStarts(s_shape[a], patch_size[a], focal_region_proportion)
                  = 0..RangeLen(a)
        /\ s_pc = "sampled" => \A a \in Axes : s_start[a] \in 0..RangeLen(a)

\* Both endpoints of a range of length 2 drawn in two calls with p = 1.
C8_Witness ==
    /\ s_pc = "sampled"
    /\ focal_region_proportion.num = focal_region_proportion.den
    /\ RangeLen(1) = 2
    /\ s_prev[1] = 0
    /\ s_start[1] = 2

\* ------------------------------------------------------ the pad, on its own
\* A test volume whose every voxel value names its own position.
Ramp(shape) ==
    [shape |-> shape,
     vox   |-> [i \in Box(shape) |-> 100 * i[1] + 10 * i[2] + i[3] + 1]]

InitPad ==
    /\ SamplerIdle
    /\ TrainIdle
    /\ InferIdle
    /\ WorkersIdle
    /\ TrainerIdle
    /\ focal_region_proportion = ScenarioP
    /\ patch_size \in Shapes(1, MaxDim)
    /\ pad_pc = "ready"
    /\ pad_in \in { Ramp(sh) : sh \in Shapes(1, MaxDim) }
    /\ pad_out = NoArray
    /\ pad_record = NoRecord

\* volume = pad(self.patch_size, volume): the caller keeps the returned array
\* and nothing else.
PadVolume ==
    /\ pad_pc = "ready"
    /\ pad_out' \in PadResults(patch_size, pad_in)
    /\ pad_pc' = "padded"
    /\ UNCHANGED <<pad_in, pad_record, samplerFields, samplerVars, trainVars, inferVars,
                   workerVars, trainerVars>>

NextPad == PadVolume

SpecPad == InitPad /\ [][NextPad]_vars

\* The input appears unmodified at offset off of the output.
AppearsAt(in, out, off) ==
    \A i \in Box(in.shape) :
        /\ Plus(i, off) \in Box(out.shape)
        /\ out.vox[Plus(i, off)] = in.vox[i]

ListBound(padPolicy) == IF padPolicy THEN 1 ELSE MaxFiles

\* The state after __init__: the configuration and the file lists of the case.
InitTrain ==
    /\ SamplerIdle
    /\ PadIdle
    /\ InferIdle
    /\ WorkersIdle
    /\ TrainerIdle
    /\ patch_size = Cube(PatchDim)
    /\ focal_region_proportion = ScenarioP
    /\ pad \in BOOLEAN
    /\ apply_mask \in BOOLEAN
    /\ apply_bound \in BOOLEAN
    /\ paths_CBCT \in SortedLists(CBCTFileIds, ListBound(pad))
    /\ paths_CT \in SortedLists(CTFileIds, ListBound(pad))
    /\ pc = "start"
    /\ CallIdle

Raise(e) ==
    /\ pc' = "raised"
    /\ err' = e

\* Lines 80-91: pick a file of each modality at random and load both.
LoadPair ==
    /\ pc = "start"
    /\ paths_CBCT # <<>> /\ paths_CT # <<>>
    /\ \E a \in Elems(paths_CBCT), b \in Elems(paths_CT) :
          /\ path_CBCT' = a
          /\ path_CT' = b
          /\ CBCT' = CBCTFile(a)
          /\ CT' = CTFile(b)
          /\ replacement_paths' = IF pad THEN {} ELSE Elems(paths_CBCT) \ {a}
    /\ pc' = IF pad THEN "check_none" ELSE "replace_cbct"
    /\ UNCHANGED <<log, err, handed, item,
                   trainFrame>>

\* Lines 86-87: random.choice of an empty list raises IndexError.
LoadPairEmpty ==
    /\ pc = "start"
    /\ paths_CBCT = <<>> \/ paths_CT = <<>>
    /\ Raise("IndexError")
    /\ UNCHANGED <<path_CBCT, path_CT, CBCT, CT, replacement_paths, log, handed,
                   item,
                   trainFrame>>

\* A plausible slip: the stored list itself is handed to the search, which
\* removes from it the candidate it consumes.
StoredAfterSearchAliased(stored, consumed) ==
    SelectSeq(stored, LAMBDA f : f # consumed)

\* Lines 97 and 100: the search is given paths.copy(); the list stored on the
\* dataset keeps every entry, whatever the search consumes.
StoredAfterSearch(stored, consumed) == stored

\* What a step of the replacement search leaves alone besides the locals and
\* the two stored lists.
searchFrame == <<pad, apply_mask, apply_bound, samplerFields, samplerVars,
                 padVars, inferVars, workerVars, trainerVars>>

\* Lines 96-97, size_invalid_check_and_replace on the CBCT: while the volume is
\* smaller than the patch, a candidate is drawn from a copy of the list
\* (without the original) and loaded; None when no candidate is left.
ReplaceCBCT ==
    /\ pc = "replace_cbct"
    /\ \/ /\ CBCT # None
          /\ ~is_volume_smaller_than(CBCT, patch_size)
          /\ pc' = "replace_ct"
          /\ replacement_paths' = Elems(paths_CT) \ {path_CT}
          /\ UNCHANGED <<CBCT, paths_CBCT>>
       \/ /\ is_volume_smaller_than(CBCT, patch_size)
          /\ replacement_paths = {}
          /\ CBCT' = None
          /\ pc' = "replace_ct"
          /\ replacement_paths' = Elems(paths_CT) \ {path_CT}
          /\ UNCHANGED paths_CBCT
       \/ /\ is_volume_smaller_than(CBCT, patch_size)
          /\ \E c \in replacement_paths :
                /\ CBCT' = CBCTFile(c)
                /\ replacement_paths' = replacement_paths \ {c}
                /\ paths_CBCT' = StoredAfterSearch(paths_CBCT, c)
          /\ UNCHANGED pc
    /\ UNCHANGED <<path_CBCT, path_CT, CT, log, err, handed, item, paths_CT,
                   searchFrame>>

\* Lines 99-100, the same search on the CT.
ReplaceCT ==
    /\ pc = "replace_ct"
    /\ \/ /\ ~is_volume_smaller_than(CT, patch_size)
          /\ pc' = "check_none"
          /\ replacement_paths' = {}
          /\ UNCHANGED <<CT, paths_CT>>
       \/ /\ is_volume_smaller_than(CT, patch_size)
          /\ replacement_paths = {}
          /\ CT' = None
          /\ pc' = "check_none"
          /\ UNCHANGED <<replacement_paths, paths_CT>>
       \/ /\ is_volume_smaller_than(CT, patch_size)
          /\ \E c \in replacement_paths :
                /\ CT' = CTFile(c)
                /\ replacement_paths' = replacement_paths \ {c}
                /\ paths_CT' = StoredAfterSearch(paths_CT, c)
          /\ UNCHANGED pc
    /\ UNCHANGED <<path_CBCT, path_CT, CBCT, log, err, handed, item, paths_CBCT,
                   searchFrame>>

\* A plausible slip: the check asks for both volumes to be missing.
CheckNoneBoth ==
    /\ pc = "check_none"
    /\ IF CBCT = None /\ CT = None
       THEN Raise("RuntimeError")
       ELSE pc' = "fov" /\ UNCHANGED err
    /\ UNCHANGED <<path_CBCT, path_CT, CBCT, CT, replacement_paths, log, handed,
                   item,
                   trainFrame>>

\* Lines 103-104.
CheckNone ==
    /\ pc = "check_none"
    /\ IF CBCT = None \/ CT = None
       THEN Raise("RuntimeError")
       ELSE pc' = "fov" /\ UNCHANGED err
    /\ UNCHANGED <<path_CBCT, path_CT, CBCT, CT, replacement_paths, log, handed,
                   item,
                   trainFrame>>

\* CBCT - 1024 on a sitk volume.
SubtractGrey(v) ==
    MkVolume([shape |-> v.arr.shape,
              vox   |-> [i \in Box(v.arr.shape) |-> v.arr.vox[i] - GreyOffset]],
             v.origin, v.spacing)

\* Lines 106-110.
FovTruncate ==
    /\ pc = "fov"
    /\ CBCT' = truncate_CBCT_based_on_fov(SubtractGrey(CBCT))
    /\ pc' = "size_check"
    /\ UNCHANGED <<path_CBCT, path_CT, CT, replacement_paths, log, err, handed,
                   item,
                   trainFrame>>

\* Lines 113-119.
SizeCheck ==
    /\ pc = "size_check"
    /\ IF (is_volume_smaller_than(CBCT, patch_size)
             \/ is_volume_smaller_than(CT, patch_size)) /\ ~pad
       THEN Raise("ValueError")
       ELSE pc' = "register" /\ UNCHANGED err
    /\ UNCHANGED <<path_CBCT, path_CT, CBCT, CT, replacement_paths, log, handed,
                   item,
                   trainFrame>>

\* Lines 121-129.
ScopeRegister ==
    /\ pc = "register"
    /\ LET CT_truncated == truncate_CT_to_scope_of_CBCT(CT, CBCT)
       IN  IF is_volume_smaller_than(CT_truncated, patch_size) /\ ~pad
           THEN /\ log' = log \cup {"truncated CT smaller than patch"}
                /\ UNCHANGED CT
           ELSE /\ CT' = CT_truncated
                /\ UNCHANGED log
    /\ pc' = "to_npy"
    /\ UNCHANGED <<path_CBCT, path_CT, CBCT, replacement_paths, err, handed,
                   item,
                   trainFrame>>

\* Lines 134-135.
ToNumpy ==
    /\ pc = "to_npy"
    /\ CBCT' = get_npy(CBCT)
    /\ CT' = get_npy(CT)
    /\ pc' = "mask_cbct"
    /\ UNCHANGED <<path_CBCT, path_CT, replacement_paths, log, err, handed,
                   item,
                   trainFrame>>

\* A plausible slip: no try around the call, a masking failure aborts the item.
MaskBoundCBCTUnguarded ==
    /\ pc = "mask_cbct"
    /\ \/ /\ CBCT' = apply_body_mask_and_bound(CBCT, apply_mask, apply_bound,
                                                cbct_mask_threshold)
          /\ pc' = "mask_ct"
          /\ UNCHANGED err
       \/ /\ Raise("MaskError")
          /\ UNCHANGED CBCT
    /\ UNCHANGED <<path_CBCT, path_CT, CT, replacement_paths, log, handed, item,
                   trainFrame>>

\* Lines 139-143: mask and bound the CBCT; when the call raises, the error is
\* logged and the array stays as it was.
MaskBoundCBCT ==
    /\ pc = "mask_cbct"
    /\ \/ /\ CBCT' = apply_body_mask_and_bound(CBCT, apply_mask, apply_bound,
                                                cbct_mask_threshold)
          /\ UNCHANGED log
       \/ /\ log' = log \cup {"mask error CBCT"}
          /\ UNCHANGED CBCT
    /\ pc' = "mask_ct"
    /\ UNCHANGED <<path_CBCT, path_CT, CT, replacement_paths, err, handed, item,
                   trainFrame>>

\* Lines 145-150: the same for the CT.
MaskBoundCT ==
    /\ pc = "mask_ct"
    /\ \/ /\ CT' = apply_body_mask_and_bound(CT, apply_mask, apply_bound,
                                              ct_mask_threshold)
          /\ UNCHANGED log
       \/ /\ log' = log \cup {"mask error CT"}
          /\ UNCHANGED CT
    /\ pc' = "pad_cbct"
    /\ UNCHANGED <<path_CBCT, path_CT, CBCT, replacement_paths, err, handed,
                   item,
                   trainFrame>>

\* Lines 153-154.
PadCBCT ==
    /\ pc = "pad_cbct"
    /\ IF pad THEN CBCT' \in PadResults(patch_size, CBCT) ELSE UNCHANGED CBCT
    /\ pc' = "pad_ct"
    /\ UNCHANGED <<path_CBCT, path_CT, CT, replacement_paths, log, err, handed,
                   item,
                   trainFrame>>

\* Lines 153, 155.
PadCT ==
    /\ pc = "pad_ct"
    /\ IF pad THEN CT' \in PadResults(patch_size, CT) ELSE UNCHANGED CT
    /\ pc' = "sample"
    /\ UNCHANGED <<path_CBCT, path_CT, CBCT, replacement_paths, log, err, handed,
                   item,
                   trainFrame>>

\* get_patch_pair(A, B): one offset triple, drawn for the shape of A, cuts the
\* patch out of both arrays.
PatchAt(a, start) == Slice(a, start, Plus(start, patch_size))

\* A plausible slip: the second patch is cut one voxel further along z.
PatchPairsShifted(a, b) ==
    { [A |-> PatchAt(a, st), B |-> PatchAt(b, Plus(st, <<1, 0, 0>>))] :
        st \in StartTriples(a.shape, patch_size, focal_region_proportion) }

PatchPairs(a, b) ==
    { [A |-> PatchAt(a, st), B |-> PatchAt(b, st)] :
        st \in StartTriples(a.shape, patch_size, focal_region_proportion) }

\* Lines 169-174: the arrays become tensors and go to the sampler, which
\* raises when an array is smaller than the patch on some axis.
SamplePatches ==
    /\ pc = "sample"
    /\ handed' = [A |-> CBCT, B |-> CT]
    /\ \/ /\ AtLeast(CBCT.shape, patch_size)
          /\ AtLeast(CT.shape, patch_size)
          /\ \E pair \in PatchPairs(CBCT, CT) :
                /\ CBCT' = pair.A
                /\ CT' = pair.B
          /\ pc' = "normalize"
          /\ UNCHANGED err
       \/ /\ SmallerOnSomeAxis(CBCT.shape, patch_size)
             \/ SmallerOnSomeAxis(CT.shape, patch_size)
          /\ Raise("SamplerError")
          /\ UNCHANGED <<CBCT, CT>>
    /\ UNCHANGED <<path_CBCT, path_CT, replacement_paths, log, item,
                   trainFrame>>

\* Lines 176-186: clamp to the HU range, normalise, add the channel axis.
ClampNormalize ==
    /\ pc = "normalize"
    /\ CBCT' = Unsqueeze(min_max_normalize(ClampArray(CBCT)))
    /\ CT' = Unsqueeze(min_max_normalize(ClampArray(CT)))
    /\ pc' = "return"
    /\ UNCHANGED <<path_CBCT, path_CT, replacement_paths, log, err, handed,
                   item,
                   trainFrame>>

\* Line 188.
ReturnItem ==
    /\ pc = "return"
    /\ item' = [A |-> CBCT, B |-> CT]
    /\ pc' = "done"
    /\ UNCHANGED <<path_CBCT, path_CT, CBCT, CT, replacement_paths, log, err,
                   handed,
                   trainFrame>>

NextTrain ==
    \/ LoadPair
    \/ LoadPairEmpty
    \/ ReplaceCBCT
    \/ ReplaceCT
    \/ CheckNone
    \/ FovTruncate
    \/ SizeCheck
    \/ ScopeRegister
    \/ ToNumpy
    \/ MaskBoundCBCT
    \/ MaskBoundCT
    \/ PadCBCT
    \/ PadCT
    \/ SamplePatches
    \/ ClampNormalize
    \/ ReturnItem

SpecTrain == InitTrain /\ [][NextTrain]_vars

\* ------------------------------------- the sampling tail of __getitem__ alone
\* Lines 169-188 entered with two arrays of one shape and any patch size.
InitPatch ==
    /\ SamplerIdle
    /\ PadIdle
    /\ InferIdle
    /\ WorkersIdle
    /\ TrainerIdle
    /\ patch_size \in Shapes(1, MaxPatch)
    /\ focal_region_proportion \in PSet
    /\ pad = TRUE /\ apply_mask = FALSE /\ apply_bound = FALSE
    /\ paths_CBCT = <<>> /\ paths_CT = <<>>
    /\ pc = "sample"
    /\ path_CBCT = NoPath /\ path_CT = NoPath
    /\ \E sh \in Shapes(1, MaxDim) :
          /\ CBCT = Ramp(sh)
          /\ CT = ClampArray(Grey(Ramp(sh)))
    /\ replacement_paths = {} /\ log = {} /\ err = NoError
    /\ handed = NoItem /\ item = NoItem

NextPatch == SamplePatches \/ ClampNormalize \/ ReturnItem

SpecPatch == InitPatch /\ [][NextPatch]_vars

\* ------------------------------------------- claims on the training __getitem__
\* C1: in every configuration, whenever the call reaches the patch sampler
\* without raising, both arrays handed to get_patch_pair are at least
\* patch_size on every axis.
C1_HandedAtLeastPatch ==
    pc = "sample" =>
        /\ AtLeast(CBCT.shape, patch_size)
        /\ AtLeast(CT.shape, patch_size)

\* C2: the two arrays handed to get_patch_pair always have identical shape.
C2_HandedSameShape ==
    pc = "sample" => CBCT.shape = CT.shape

AllSmall(files) == \A v \in files : is_volume_smaller_than(v, patch_size)

NoUsableCandidate ==
    \/ AllSmall({ CBCTFile(f) : f \in Elems(paths_CBCT) })
    \/ AllSmall({ CTFile(f) : f \in Elems(paths_CT) })

\* C10: under the replace policy, when every candidate volume of a modality of
\* the case is smaller than patch_size on some axis, the call never gets past
\* the check of line 103, where it can only raise, and no item is returned.
C10_ExhaustedCandidatesRaise ==
    (pc # "idle" /\ ~pad /\ NoUsableCandidate) =>
        /\ pc \in {"start", "replace_cbct", "replace_ct", "check_none", "raised"}
        /\ pc = "check_none" => (CBCT = None \/ CT = None)
        /\ pc = "raised" => err \in {"RuntimeError", "IndexError"}
        /\ item = NoItem

\* The search went through two undersized CBCT files and the call raised.
C10_Witness ==
    /\ pc = "raised"
    /\ err = "RuntimeError"
    /\ ~pad
    /\ Len(paths_CBCT) = 2
    /\ AllSmall({ CBCTFile(f) : f \in Elems(paths_CBCT) })
    /\ ~AllSmall({ CTFile(f) : f \in Elems(paths_CT) })

\* ------------------------------------------------- claims on the sampling tail
\* C5: for two volumes of one shape that is at least patch_size on every axis,
\* get_patch_pair returns two patches of shape patch_size cut at one and the
\* same offset triple, and the item returned holds two tensors of shape
\* [1, pz, py, px].
C5_PatchPairShapeAndOffset ==
    (handed # NoItem /\ handed.A.shape = handed.B.shape
        /\ AtLeast(handed.A.shape, patch_size)) =>
        /\ pc # "raised"
        /\ pc = "normalize" =>
              /\ CBCT.shape = patch_size
              /\ CT.shape = patch_size
              /\ \E st \in Box(handed.A.shape) :
                    /\ CBCT = PatchAt(handed.A, st)
                    /\ CT = PatchAt(handed.B, st)
        /\ pc = "done" =>
              /\ item.A.shape = <<1>> \o patch_size
              /\ item.B.shape = <<1>> \o patch_size

\* An item returned from a volume with room for more than one offset on z.
C5_Witness ==
    /\ pc = "done"
    /\ handed.A.shape[1] > patch_size[1]
    /\ handed.A.shape = handed.B.shape
    /\ AtLeast(handed.A.shape, patch_size)
    /\ item.A.shape = <<1>> \o patch_size

\* ------------------------------------------------- CBCTtoCTInferenceDataset
\* The CBCT files an inference item can be: any extent of at least two voxels
\* per axis, optionally with a first slice outside the field of view, with no
\* body, a body filling the field of view or a body box off the low faces,
\* dense or sparse, inside the HU range or above it.
InferPaths ==
    [shape : Shapes(2, MaxDim), fovz : {0, 1}, body : {"none", "full", "inner"},
     base : {100, 3000}, sparse : BOOLEAN]

InferFile(path) ==
    LET fovLo  == <<path.fovz, 0, 0>>
        bodyLo == IF path.body = "inner" THEN Cube(1) ELSE fovLo
        bodyHi == IF path.body = "none" THEN bodyLo ELSE path.shape
    IN  MkVolume(Grey(IF path.sparse
                      THEN SparsePhantom(path.shape, fovLo, path.shape,
                                         bodyLo, bodyHi, path.base)
                      ELSE Phantom(path.shape, fovLo, path.shape,
                                   bodyLo, bodyHi, path.base)),
                 Zero3, 1)

\* The state after __init__, with the item that is requested.
InitInfer ==
    /\ SamplerIdle
    /\ PadIdle
    /\ patch_size = Cube(PatchDim)
    /\ focal_region_proportion = ScenarioP
    /\ pad = FALSE
    /\ paths_CBCT = <<>> /\ paths_CT = <<>>
    /\ pc = "idle"
    /\ CallIdle
    /\ WorkersIdle
    /\ TrainerIdle
    /\ apply_mask \in BOOLEAN
    /\ apply_bound \in BOOLEAN
    /\ inf_pc = "start"
    /\ inf_path \in InferPaths
    /\ volume = None /\ metadata = NoMetadata
    /\ tensor = None /\ full_tensor = None /\ written = None

\* Lines 226-236: load, subtract the grey offset, truncate to the field of view.
InferLoad ==
    /\ inf_pc = "start"
    /\ volume' = truncate_CBCT_based_on_fov(SubtractGrey(InferFile(inf_path)))
    /\ inf_pc' = "metadata"
    /\ UNCHANGED <<inf_path, metadata, tensor, full_tensor, written, apply_mask, apply_bound,
                   inferFrame>>

\* A plausible slip: the size is recorded in array order (z, y, x).
RecordedSizeZYX(v) == v.arr.shape

\* Lines 238-243: the size recorded is volume.GetSize() of the truncated volume.
RecordedSize(v) == GetSize(v)

InferRecord ==
    /\ inf_pc = "metadata"
    /\ metadata' = [path |-> inf_path, size |-> RecordedSize(volume),
                    origin |-> volume.origin, spacing |-> volume.spacing]
    /\ volume' = get_npy(volume)
    /\ inf_pc' = "mask"
    /\ UNCHANGED <<inf_path, tensor, full_tensor, written, apply_mask, apply_bound,
                   inferFrame>>

\* A plausible slip: the pair is recorded as (stop, start).
BoundsPairsSwapped(b) == [k \in Axes |-> <<b.hi[k], b.lo[k]>>]

\* The bounds as line 260 appends them: a (start, stop) pair per axis.
BoundsPairs(b) == [k \in Axes |-> <<b.lo[k], b.hi[k]>>]

\* A plausible slip: the crop is nested under the mask toggle.
MaskThenBoundCoupled(a, body_mask, b, mask_on, bound_on) ==
    IF mask_on
    THEN IF bound_on THEN Slice(Where(body_mask, a, Air), b.lo, b.hi)
         ELSE Where(body_mask, a, Air)
    ELSE a

\* Lines 252-257 (and 371-388 of the evaluation dataset, for each modality):
\* the mask is applied if apply_mask, then the array is cropped if apply_bound.
MaskThenBound(a, body_mask, b, mask_on, bound_on) ==
    LET masked == IF mask_on THEN Where(body_mask, a, Air) ELSE a
    IN  IF bound_on THEN Slice(masked, b.lo, b.hi) ELSE masked

\* Lines 248-260: the body mask and its bounds; the mask is applied and the
\* array cropped according to the toggles; the bounds are always recorded.
\* get_body_mask_and_bound is called outside any try: if it raises, the call
\* raises.
InferMaskBound ==
    /\ inf_pc = "mask"
    /\ \/ LET body_mask == BodyMask(volume, cbct_mask_threshold)
              b         == BodyBounds(volume, cbct_mask_threshold)
          IN  /\ volume' = MaskThenBound(volume, body_mask, b, apply_mask,
                                         apply_bound)
              /\ metadata' = [path |-> metadata.path, size |-> metadata.size,
                              origin |-> metadata.origin,
                              spacing |-> metadata.spacing,
                              bounds |-> BoundsPairs(b)]
              /\ inf_pc' = "normalize"
       \/ /\ inf_pc' = "raised"
          /\ UNCHANGED <<volume, metadata>>
    /\ UNCHANGED <<inf_path, tensor, full_tensor, written, apply_mask, apply_bound,
                   inferFrame>>

\* Lines 264-273.
InferReturn ==
    /\ inf_pc = "normalize"
    /\ tensor' = Unsqueeze(min_max_normalize(ClampArray(volume)))
    /\ inf_pc' = "returned"
    /\ UNCHANGED <<inf_path, volume, metadata, full_tensor, written, apply_mask, apply_bound,
                   inferFrame>>

\* tensor.squeeze(): every axis of extent 1 is dropped.
NotOne(d) == d # 1
Squeezed(shape) == SelectSeq(shape, NotOne)

\* Number of the axes 1..a of a shape that squeeze keeps.
KeptUpTo(shape, a) == Cardinality({ k \in 1..a : shape[k] # 1 })

\* full_tensor[slice] = tensor is accepted when the squeezed tensor broadcasts
\* to the shape of the slice: its axes match the trailing axes of the slice.
Broadcasts(tshape, sshape) ==
    LET r == Squeezed(tshape)
    IN  \A j \in 1..Len(r) : r[j] = sshape[3 - Len(r) + j]

\* The voxel of the squeezed tensor that lands on index i of the slice.
SourceIndex(tshape, i) ==
    LET k == Len(Squeezed(tshape))
    IN  [a \in Axes |-> IF tshape[a] = 1 THEN 0
                        ELSE i[3 - k + KeptUpTo(tshape, a)]]

\* A plausible slip: the array is written at the origin of the canvas.
PasteAtOrigin(canvas, lo, hi, t) ==
    [shape |-> canvas.shape,
     vox   |-> [i \in Box(canvas.shape) |->
                  IF i \in Box(t.shape) THEN t.vox[i] ELSE canvas.vox[i]]]

\* canvas[lo:hi] = t
Paste(canvas, lo, hi, t) ==
    [shape |-> canvas.shape,
     vox   |-> [i \in Box(canvas.shape) |->
                  IF InBox(i, lo, hi)
                  THEN t.vox[SourceIndex(t.shape, Minus(i, lo))]
                  ELSE canvas.vox[i]]]

\* A plausible slip: the normalised tensor is written into the canvas first and
\* the whole canvas denormalised afterwards.
ReconstructThenDenormalize(t, canvas, lo, hi) ==
    min_max_denormalize(Paste(canvas, lo, hi, t))

\* Lines 280-287: the tensor is denormalised, then written into the canvas.
Reconstruct(t, canvas, lo, hi) == Paste(canvas, lo, hi, min_max_denormalize(t))

\* Lines 278-300: denormalise the tensor, allocate the canvas of the recorded
\* size, write the tensor into the recorded bounds, write the volume out.
\* The slice assignment raises when the squeezed tensor does not broadcast to
\* the slice; the canvas is allocated by then, nothing is written out.
\* The tensor saved is the one __getitem__ returned (an identity model).
Save ==
    /\ inf_pc = "returned"
    /\ LET t      == [shape |-> Tail(tensor.shape), vox |-> tensor.vox]
           size   == metadata.size
           canvas == Full(<<size[3], size[2], size[1]>>, Air)
           lo     == [k \in Axes |-> metadata.bounds[k][1]]
           hi     == [k \in Axes |-> metadata.bounds[k][2]]
           region == Slice(canvas, lo, hi).shape
       IN  /\ full_tensor' = IF Broadcasts(t.shape, region)
                             THEN Reconstruct(t, canvas, lo, hi) ELSE canvas
           /\ IF Broadcasts(t.shape, region)
              THEN /\ written' = [path    |-> metadata.path,
                                  arr     |-> Reconstruct(t, canvas, lo, hi),
                                  origin  |-> metadata.origin,
                                  spacing |-> metadata.spacing]
                   /\ inf_pc' = "saved"
              ELSE /\ inf_pc' = "save_raised"
                   /\ UNCHANGED written
    /\ UNCHANGED <<inf_path, volume, metadata, tensor, apply_mask, apply_bound,
                   inferFrame>>

NextInfer == InferLoad \/ InferRecord \/ InferMaskBound \/ InferReturn \/ Save

SpecInfer == InitInfer /\ [][NextInfer]_vars

\* The array of the requested file after lines 226-245: FOV-truncated.
TruncatedArray == get_npy(truncate_CBCT_based_on_fov(SubtractGrey(InferFile(inf_path))))

\* V: the array __getitem__ crops (masked when apply_mask is on); B: its box.
InferV ==
    IF apply_mask
    THEN Where(BodyMask(TruncatedArray, cbct_mask_threshold), TruncatedArray, Air)
    ELSE TruncatedArray
InferB == BodyBounds(TruncatedArray, cbct_mask_threshold)

SaveEnded == inf_pc \in {"saved", "save_raised"}

\* C3: for every volume V and box B that the inference __getitem__ produces,
\* cropping V to B and calling save yields a volume of V's size that equals V
\* at every voxel inside B and is the air sentinel -1024 at every voxel
\* outside B.
C3_ReconstructorInverseLaw ==
    (apply_bound /\ SaveEnded) =>
        /\ inf_pc = "saved"
        /\ written.arr.shape = InferV.shape
        /\ \A i \in Box(InferV.shape) :
              written.arr.vox[i] = IF InBox(i, InferB.lo, InferB.hi)
                                   THEN InferV.vox[i] ELSE Air

\* What of the inverse law the code keeps: when save completes, the written
\* volume is V clipped to the HU range inside B and air outside B.
C3_SavedIsClippedInsideBox ==
    (apply_bound /\ inf_pc = "saved") =>
        /\ written.arr.shape = InferV.shape
        /\ \A i \in Box(InferV.shape) :
              written.arr.vox[i] = IF InBox(i, InferB.lo, InferB.hi)
                                   THEN Clamp(InferV.vox[i]) ELSE Air

\* The two ways the law fails: a voxel above hu_max inside B is written back
\* clipped; a box of extent 1 on an axis before a longer axis makes save raise.
C3_ClippedReached ==
    /\ apply_bound /\ inf_pc = "saved"
    /\ \E i \in Box(InferV.shape) :
          InBox(i, InferB.lo, InferB.hi) /\ InferV.vox[i] > hu_max
C3_SaveRaisedReached == apply_bound /\ inf_pc = "save_raised"

FileShape == InferFile(inf_path).arr.shape

\* C4: the canvas that save allocates has the size of the input volume as
\* loaded from its file (before FOV truncation and before body bounding), so
\* the written volume has the voxel extent of the input file.
C4_CanvasIsFileSize ==
    SaveEnded =>
        /\ full_tensor.shape = FileShape
        /\ inf_pc = "saved" => written.arr.shape = FileShape

\* C4 as amended: the canvas has the size of the volume after FOV truncation
\* (and before body bounding); a volume that save writes has that extent.
C4_CanvasIsTruncatedSize ==
    SaveEnded =>
        /\ full_tensor.shape = TruncatedArray.shape
        /\ inf_pc = "saved" => written.arr.shape = TruncatedArray.shape

\* Save has written a volume whose file lost a slice to the FOV truncation
\* and whose body box is a proper part of the truncated volume.
C4_Witness ==
    /\ inf_pc = "saved"
    /\ TruncatedArray.shape # FileShape
    /\ apply_bound
    /\ InferB # FullBounds(TruncatedArray.shape)
    /\ written.arr.shape[1] # written.arr.shape[3]

\* ------------------------------------------------ claims on error handling
\* C11: when the body mask/bound step raises for a volume in the training
\* __getitem__, the failure is logged, that volume stays exactly as it was
\* before the step, and the item goes on to the next step: the step either
\* applies the mask and bound and logs nothing, or logs and changes nothing;
\* it never aborts the item.
C11_MaskFailureRecoverable ==
    [][/\ pc = "mask_cbct" =>
            /\ pc' = "mask_ct" /\ err' = NoError /\ CT' = CT
            /\ \/ /\ log' = log \cup {"mask error CBCT"} /\ log' # log
                  /\ CBCT' = CBCT
               \/ /\ log' = log
                  /\ CBCT' = apply_body_mask_and_bound(CBCT, apply_mask,
                                 apply_bound, cbct_mask_threshold)
       /\ pc = "mask_ct" =>
            /\ pc' = "pad_cbct" /\ err' = NoError /\ CBCT' = CBCT
            /\ \/ /\ log' = log \cup {"mask error CT"} /\ log' # log
                  /\ CT' = CT
               \/ /\ log' = log
                  /\ CT' = apply_body_mask_and_bound(CT, apply_mask,
                               apply_bound, ct_mask_threshold)]_vars

\* An item emitted although masking failed for the CBCT: bounding was on and
\* would have cropped the volume, and the sampler got it uncropped.
C11_Witness ==
    /\ pc = "done"
    /\ "mask error CBCT" \in log
    /\ "mask error CT" \notin log
    /\ apply_bound /\ ~pad
    /\ path_CBCT = 2
    /\ handed.A.shape = Cube(MaxDim)
    /\ item # NoItem

\* C12: a training dataset over a root in which a case has no usable file of
\* one of its modalities is never constructed, so no item request is ever made
\* on such a dataset and none fails at the choice of a file from an empty list.
C12_ConstructionFailsFast ==
    (paths_CBCT = <<>> \/ paths_CT = <<>>) => pc \notin {"start", "raised"}

\* The CT has no voxel inside the physical extent of the CBCT.
EmptyOverlap(ct, cbct) ==
    \E k \in Axes : OverlapLo(ct, cbct, k) >= OverlapHi(ct, cbct, k)

StageRank(label, padPolicy) ==
    CASE label = "start" -> 1
      [] label \in {"replace_cbct", "replace_ct"} -> 5
      [] label = "check_none" -> IF padPolicy THEN 1 ELSE 5
      [] label = "fov" -> 2
      [] label = "size_check" -> IF padPolicy THEN 2 ELSE 5
      [] label = "register" -> 3
      [] label = "to_npy" -> 3
      [] label \in {"mask_cbct", "mask_ct"} -> 4
      [] label \in {"pad_cbct", "pad_ct"} -> IF padPolicy THEN 5 ELSE 4
      [] label = "sample" -> 6
      [] label = "normalize" -> 7
      [] label = "return" -> 8

Running(label) == label \notin {"idle", "done", "raised"}

\* C14: every training item goes through the stages in the order load,
\* FOV-truncate, scope-register, mask/bound, size-guard, patch-sample,
\* clamp/normalize, emit: no step is followed by a step of an earlier stage,
\* and the step right before patch sampling is a size-guard step, under the
\* pad and under the replace policy.
C14_TrainingStageOrder ==
    [][(Running(pc) /\ Running(pc') /\ pc' # pc) =>
            /\ StageRank(pc, pad) <= StageRank(pc', pad)
            /\ pc' = "sample" => StageRank(pc, pad) = 5]_vars

\* What holds of the order: it is the claimed one under the pad policy.
C14_PadPolicyStageOrder ==
    [][(pad /\ Running(pc) /\ Running(pc') /\ pc' # pc) =>
            /\ StageRank(pc, pad) <= StageRank(pc', pad)
            /\ pc' = "sample" => StageRank(pc, pad) = 5]_vars

\* The stage, in the order load (1), FOV-truncate (2), mask/bound (3),
\* size-guard (4), normalize (5), emit (6), save (7), that the step
\* __getitem__ or save takes next at a position completes.
InferStageRank(label) ==
    CASE label = "start" -> 2
      [] label = "metadata" -> 2
      [] label = "mask" -> 3
      [] label = "normalize" -> 6
      [] label = "returned" -> 7

InferRunning(label) == label \in {"start", "metadata", "mask", "normalize", "returned"}

SavedTensor == [shape |-> Tail(tensor.shape), vox |-> tensor.vox]
SavedLo == [k \in Axes |-> metadata.bounds[k][1]]
SavedHi == [k \in Axes |-> metadata.bounds[k][2]]

\* C15: every inference item goes through load, FOV-truncate, mask/bound,
\* size-guard, normalize, emit in this order with no stage skipped (the stage
\* after mask/bound is the size guard), and save reconstructs into the canvas,
\* then denormalises, then writes.
C15_InferenceStageOrder ==
    [][/\ (InferRunning(inf_pc) /\ InferRunning(inf_pc')) =>
            /\ InferStageRank(inf_pc) <= InferStageRank(inf_pc')
            /\ inf_pc = "mask" => InferStageRank(inf_pc') = 4
       /\ (inf_pc = "returned" /\ inf_pc' = "saved") =>
            written'.arr = min_max_denormalize(
                               Paste(Full(written'.arr.shape, Air),
                                     SavedLo, SavedHi, SavedTensor))]_vars

\* C15 as amended: the order is load, FOV-truncate, mask/bound, normalize,
\* emit, with no size-guard stage and none of these skipped or reordered, and
\* save denormalises, then reconstructs into the canvas, then writes.
C15_InferenceOrderNoGuard ==
    [][/\ (InferRunning(inf_pc) /\ inf_pc' # inf_pc) =>
            \/ inf_pc' \in {"raised", "save_raised"}
            \/ <<inf_pc, inf_pc'>> \in
                 {<<"start", "metadata">>, <<"metadata", "mask">>,
                  <<"mask", "normalize">>, <<"normalize", "returned">>,
                  <<"returned", "saved">>}
       /\ (inf_pc = "returned" /\ inf_pc' = "saved") =>
            written'.arr = Paste(Full(written'.arr.shape, Air), SavedLo, SavedHi,
                                 min_max_denormalize(SavedTensor))]_vars

\* A volume was saved whose box leaves voxels of the canvas outside, where
\* the order of denormalising and reconstructing shows.
C15_Witness ==
    /\ inf_pc = "saved"
    /\ apply_bound
    /\ \E i \in Box(written.arr.shape) : ~InBox(i, SavedLo, SavedHi)
    /\ \E i \in Box(written.arr.shape) :
          InBox(i, SavedLo, SavedHi) /\ written.arr.vox[i] # Air

\* ------------------------------------------------ claims on mask and bound
\* The offset of the array after the mask/bound step inside the array before.
BoundShift == IF apply_bound THEN InferB.lo ELSE Zero3

\* C16: apply_mask and apply_bound are orthogonal: after the mask/bound step
\* the array has the extent of the bounding box iff apply_bound is on (else
\* the extent it had), and each of its voxels is -1024 iff apply_mask is on
\* and the voxel lies outside the body mask (else the value it had), whatever
\* the other toggle; with both off the array is unchanged.
C16_TogglesOrthogonal ==
    inf_pc = "normalize" =>
        /\ volume.shape = IF apply_bound
                          THEN [k \in Axes |-> InferB.hi[k] - InferB.lo[k]]
                          ELSE TruncatedArray.shape
        /\ \A i \in Box(volume.shape) :
              volume.vox[i] =
                 IF apply_mask /\ Plus(i, BoundShift) \notin
                                     BodyMask(TruncatedArray, cbct_mask_threshold)
                 THEN Air
                 ELSE TruncatedArray.vox[Plus(i, BoundShift)]
        /\ (~apply_mask /\ ~apply_bound) => volume = TruncatedArray

\* Bounding without masking on a volume where both would act: the box is a
\* proper part of the volume and holds a voxel outside the body mask.
C16_Witness ==
    /\ inf_pc = "normalize"
    /\ apply_bound /\ ~apply_mask
    /\ volume.shape # TruncatedArray.shape
    /\ \E i \in Box(volume.shape) :
          /\ Plus(i, InferB.lo) \notin BodyMask(TruncatedArray, cbct_mask_threshold)
          /\ volume.vox[i] # Air

\* ------------------------------------------------------ the normaliser alone
\* Intensities around both ends of the HU range, outside it and in its middle.
Intensities ==
    (hu_min - MaxExcess .. hu_min + MaxExcess) \cup (-1 .. 1)
        \cup (hu_max - MaxExcess .. hu_max + MaxExcess)

PairShape == <<1, 1, 2>>

PairArray(x, y) ==
    [shape |-> PairShape, vox |-> [i \in Box(PairShape) |-> IF i[3] = 0 THEN x ELSE y]]

\* An inference item of two voxels, right before it is clamped and normalised
\* (lines 264-271); save then denormalises it (lines 279-280).
InitNorm ==
    /\ SamplerIdle
    /\ PadIdle
    /\ patch_size = Cube(PatchDim)
    /\ focal_region_proportion = ScenarioP
    /\ pad = FALSE
    /\ paths_CBCT = <<>> /\ paths_CT = <<>>
    /\ pc = "idle"
    /\ CallIdle
    /\ WorkersIdle
    /\ TrainerIdle
    /\ apply_mask = FALSE /\ apply_bound = FALSE
    /\ inf_pc = "normalize"
    /\ inf_path = None
    /\ \E x, y \in Intensities : volume = PairArray(x, y)
    /\ metadata = [path |-> None, size |-> <<2, 1, 1>>, origin |-> Zero3,
                   spacing |-> 1, bounds |-> BoundsPairs(FullBounds(PairShape))]
    /\ tensor = None /\ full_tensor = None /\ written = None

NextNorm == InferReturn \/ Save

SpecNorm == InitNorm /\ [][NextNorm]_vars

\* clip(x, hu_min, hu_max), written out.
Clip(x) == IF x < hu_min THEN hu_min ELSE IF x > hu_max THEN hu_max ELSE x

Workers == 1 .. NumWorkers

\* The generator behind the random module is a deterministic function of its
\* state: what it draws below n, and the state it moves to.
Draw(state, n) == (state % n) + 1
Advance(state) == (5 * state + 3) % RngModulus

\* A plausible design: the worker's own number enters the state it draws from.
WorkerStatePartitioned(w, state) == (state + w) % RngModulus

\* Lines 86-87 draw from the module-level generator of the process: the state
\* used is the worker's copy as it stands, whichever worker it is.
WorkerState(w, state) == state

\* The dataset is built in the parent; each worker starts with a copy of the
\* parent's generator state.
InitWorkers ==
    /\ SamplerIdle
    /\ PadIdle
    /\ InferIdle
    /\ TrainerIdle
    /\ patch_size = Cube(PatchDim)
    /\ focal_region_proportion = ScenarioP
    /\ pad = TRUE /\ apply_mask = FALSE /\ apply_bound = FALSE
    /\ paths_CBCT \in { l \in SortedLists(CBCTFileIds, MaxFiles) : Len(l) >= 2 }
    /\ paths_CT \in { l \in SortedLists(CTFileIds, 1) : Len(l) >= 1 }
    /\ pc = "idle"
    /\ CallIdle
    /\ \E seed \in 0 .. RngModulus - 1 : rng = [w \in Workers |-> seed]
    /\ drawn = [w \in Workers |-> <<>>]

\* Lines 80-87 in worker w: the two files of the item are chosen with the
\* worker's generator. The rest of the call works on locals of the worker.
WorkerGetItem(w) ==
    /\ Len(drawn[w]) < MaxCalls
    /\ LET s0 == WorkerState(w, rng[w])
           a  == paths_CBCT[Draw(s0, Len(paths_CBCT))]
           s1 == Advance(s0)
           b  == paths_CT[Draw(s1, Len(paths_CT))]
       IN  /\ drawn' = [drawn EXCEPT ![w] = Append(@, <<a, b>>)]
           /\ rng' = [rng EXCEPT ![w] = Advance(s1)]
    /\ UNCHANGED <<samplerFields, samplerVars, padVars, trainVars, inferVars,
                   trainerVars>>

NextWorkers == \E w \in Workers : WorkerGetItem(w)

SpecWorkers == InitWorkers /\ [][NextWorkers]_vars

\* C18: the random choices of a training item come from a source that is
\* independent per worker: two workers that started from the same inherited
\* generator state and have made as many calls have not made the same
\* sequence of choices.
C18_WorkersDrawIndependently ==
    \A w1, w2 \in Workers :
        (w1 # w2 /\ Len(drawn[w1]) = Len(drawn[w2]) /\ Len(drawn[w1]) > 0) =>
            drawn[w1] # drawn[w2]

\* What holds instead: the k-th choice of every worker is the same.
C18_WorkersDrawAlike ==
    \A w1, w2 \in Workers :
        \A k \in 1 .. Min(Len(drawn[w1]), Len(drawn[w2])) :
            drawn[w1][k] = drawn[w2][k]

\* ------------------------------------------------------ claims on the frame
\* C19: a call of the training __getitem__ leaves the state stored on the
\* dataset unchanged: the stored CBCT and CT path lists, patch_size, the focal
\* proportion, the toggles and the policy; the replacement search consumes
\* candidates of a copy and never removes an entry of the stored lists.
C19_GetItemLeavesDatasetUnchanged ==
    [][/\ paths_CBCT' = paths_CBCT
       /\ paths_CT' = paths_CT
       /\ patch_size' = patch_size
       /\ focal_region_proportion' = focal_region_proportion
       /\ pad' = pad
       /\ apply_mask' = apply_mask
       /\ apply_bound' = apply_bound]_vars

\* The replacement search has consumed a candidate: the CBCT in hand is not
\* the file chosen first, and the stored list still holds both files.
C19_Witness ==
    /\ pc = "replace_ct"
    /\ ~pad
    /\ CBCT # None
    /\ CBCT # CBCTFile(path_CBCT)
    /\ Len(paths_CBCT) = 2
    /\ path_CBCT \in Elems(paths_CBCT)

\* ------------------------------------------------ claims on the bounding box
HasBounds == inf_pc \in {"normalize", "returned", "saved", "save_raised"}

\* C20: the bounding box stored in the metadata of an inference item has
\* 0 <= min <= max on every axis and lies within the size stored in the same
\* metadata (z within size[2], y within size[1], x within size[0], counted
\* from 0); when the body mask is empty it is the box of the full volume.
C20_StoredBoxWithinStoredSize ==
    HasBounds =>
        /\ \A k \in Axes :
              /\ 0 <= metadata.bounds[k][1]
              /\ metadata.bounds[k][1] <= metadata.bounds[k][2]
              /\ metadata.bounds[k][2] <= metadata.size[4 - k]
        /\ BodyMask(TruncatedArray, cbct_mask_threshold) = {} =>
              \A k \in Axes : /\ metadata.bounds[k][1] = 0
                              /\ metadata.bounds[k][2] = metadata.size[4 - k]

\* A box recorded for a volume that lost a slice to the FOV truncation, is
\* longer on y than on x, and whose body starts off the low y and x faces.
C20_Witness ==
    /\ HasBounds
    /\ TruncatedArray.shape # FileShape
    /\ metadata.size[2] > metadata.size[1]
    /\ metadata.bounds[2][1] > 0
    /\ metadata.bounds[3][1] > 0
    /\ \A k \in Axes : metadata.bounds[k][2] > metadata.bounds[k][1]

\* The extent of the box stored in the metadata.
StoredBoxExtent == [k \in Axes |-> metadata.bounds[k][2] - metadata.bounds[k][1]]

\* C21: for every inference item and every combination of the toggles, the
\* spatial shape of the emitted tensor is the extent of the bounding box
\* stored in its metadata, and save writes the same-shaped model output into
\* the box of the canvas without a shape mismatch.
C21_TensorShapeIsBoxExtent ==
    /\ inf_pc \in {"returned", "saved", "save_raised"} =>
          Tail(tensor.shape) = StoredBoxExtent
    /\ inf_pc # "save_raised"

\* What holds: with bounding on, the emitted tensor has the extent of the box.
C21_BoundedTensorShapeIsBoxExtent ==
    (apply_bound /\ inf_pc \in {"returned", "saved", "save_raised"}) =>
        Tail(tensor.shape) = StoredBoxExtent

\* ------------------------------------------------------------------ Trainer
\* The fields of the training configuration that the Trainer reads, and
\* whether the process is the main one (communication.is_main_process).
TrainConfigs ==
    [n_iters : 0 .. MaxIters, n_iters_decay : 0 .. MaxIters,
     load_checkpoint : BOOLEAN, count_start_iter : 0 .. MaxStart,
     checkpoint_freq : 1 .. MaxFreq, is_main : BOOLEAN]

\* Line 27.
StartIter(c) == IF ~c.load_checkpoint THEN 1 ELSE c.count_start_iter

\* A plausible slip: the end of the range without the 1 +.
EndIterExclusive(c) == c.n_iters + c.n_iters_decay

\* Line 28.
EndIter(c) == 1 + c.n_iters + c.n_iters_decay

\* The state after Trainer.__init__ (lines 18-31), with a loader that will
\* yield a finite number of batches.
InitTrainer ==
    /\ SamplerIdle
    /\ PadIdle
    /\ InferIdle
    /\ WorkersIdle
    /\ patch_size = Cube(PatchDim)
    /\ focal_region_proportion = ScenarioP
    /\ pad = TRUE /\ apply_mask = FALSE /\ apply_bound = FALSE
    /\ paths_CBCT = <<>> /\ paths_CT = <<>>
    /\ pc = "idle"
    /\ CallIdle
    /\ t_pc = "run"
    /\ conf \in { c \in TrainConfigs : c.load_checkpoint \/ c.count_start_iter = 1 }
    /\ iters = [start |-> StartIter(conf), stop |-> EndIter(conf)]
    /\ iter_idx = 0
    /\ zipped = None
    /\ \E n \in 0 .. MaxBatches : loader = [yields |-> n, yielded |-> 0]
    /\ trace = <<>>
    /\ closes = 0

trainerFrame == <<samplerFields, samplerVars, padVars, trainVars, inferVars,
                  workerVars>>

\* Lines 34-39: the data-loading timer is started and zip is built over
\* self.iters and the loader.
RunStart ==
    /\ t_pc = "run"
    /\ zipped' = [next |-> iters.start, i |-> 0, data |-> 0]
    /\ t_pc' = "zip"
    /\ UNCHANGED <<conf, iters, iter_idx, loader, trace, closes, trainerFrame>>

\* Line 39, one step of zip: it asks the range first and the loader second,
\* and ends the loop as soon as either is exhausted.
ZipNext ==
    /\ t_pc = "zip"
    /\ IF zipped.next >= iters.stop
       THEN /\ t_pc' = "close"
            /\ UNCHANGED <<zipped, loader>>
       ELSE IF loader.yielded = loader.yields
       THEN /\ zipped' = [zipped EXCEPT !.next = @ + 1]
            /\ t_pc' = "close"
            /\ UNCHANGED loader
       ELSE /\ zipped' = [next |-> zipped.next + 1, i |-> zipped.next,
                          data |-> loader.yielded + 1]
            /\ loader' = [loader EXCEPT !.yielded = @ + 1]
            /\ t_pc' = "set_idx"
    /\ UNCHANGED <<conf, iters, iter_idx, trace, closes, trainerFrame>>

\* Lines 40-42 and 70-72.
SetIterIdx ==
    /\ t_pc = "set_idx"
    /\ iter_idx' = zipped.i
    /\ trace' = Append(trace, <<"set_iter_idx", zipped.i>>)
    /\ t_pc' = "optimize"
    /\ UNCHANGED <<conf, iters, zipped, loader, closes, trainerFrame>>

\* Lines 44-45 and 56-58.
DoIteration ==
    /\ t_pc = "optimize"
    /\ trace' = Append(trace, <<"optimize", iter_idx>>)
    /\ t_pc' = "log"
    /\ UNCHANGED <<conf, iters, iter_idx, zipped, loader, closes, trainerFrame>>

\* Lines 47-48.
LogIter ==
    /\ t_pc = "log"
    /\ trace' = Append(trace, <<"log", iter_idx>>)
    /\ t_pc' = "checkpoint"
    /\ UNCHANGED <<conf, iters, iter_idx, zipped, loader, closes, trainerFrame>>

\* A plausible slip: every process saves.
ShouldCheckpointAnyProcess(is_main, idx, freq) == idx % freq = 0

\* Lines 65-66.
ShouldCheckpoint(is_main, idx, freq) == is_main /\ idx % freq = 0

\* Lines 50 and 63-68.
SaveCheckpoint ==
    /\ t_pc = "checkpoint"
    /\ trace' = IF ShouldCheckpoint(conf.is_main, iter_idx, conf.checkpoint_freq)
                THEN Append(trace, <<"checkpoint", iter_idx>>)
                ELSE trace
    /\ t_pc' = "scheduler"
    /\ UNCHANGED <<conf, iters, iter_idx, zipped, loader, closes, trainerFrame>>

\* Lines 51-53 and 60-61.
SchedulerStep ==
    /\ t_pc = "scheduler"
    /\ trace' = Append(trace, <<"scheduler", iter_idx>>)
    /\ t_pc' = "zip"
    /\ UNCHANGED <<conf, iters, iter_idx, zipped, loader, closes, trainerFrame>>

\* Line 54.
Close ==
    /\ t_pc = "close"
    /\ closes' = closes + 1
    /\ trace' = Append(trace, <<"close", iter_idx>>)
    /\ t_pc' = "done"
    /\ UNCHANGED <<conf, iters, iter_idx, zipped, loader, trainerFrame>>

NextTrainer ==
    \/ RunStart \/ ZipNext \/ SetIterIdx \/ DoIteration \/ LogIter
    \/ SaveCheckpoint \/ SchedulerStep \/ Close

\* run is one thread of control: it keeps taking its next step.
SpecTrainer == InitTrainer /\ [][NextTrainer]_vars /\ WF_vars(NextTrainer)

\* ------------------------------------------------------ claims on the Trainer
\* The iteration indices set so far, in order.
IndicesSet ==
    LET sets == SelectSeq(trace, LAMBDA e : e[1] = "set_iter_idx")
    IN  [k \in 1 .. Len(sets) |-> sets[k][2]]

\* The first and the last iteration index of the configuration.
FirstIndex == IF conf.load_checkpoint THEN conf.count_start_iter ELSE 1
LastIndex == conf.n_iters + conf.n_iters_decay

\* The number of iterations run is to perform.
IterationsDue == Min(Max(0, LastIndex - FirstIndex + 1), loader.yields)

TrainerRunSafe ==
    /\ \A k \in 1 .. Len(IndicesSet) :
          /\ IndicesSet[k] = FirstIndex + k - 1
          /\ IndicesSet[k] <= LastIndex
    /\ Len(IndicesSet) <= IterationsDue
    /\ closes = IF t_pc = "done" THEN 1 ELSE 0
    /\ t_pc = "done" =>
          /\ Len(IndicesSet) = IterationsDue
          /\ trace[Len(trace)][1] = "close"
          /\ \A k \in 1 .. Len(trace) - 1 : trace[k][1] # "close"

\* C22: Trainer.run terminates for every finite loader; it performs exactly
\* min(number of iteration indices, number of batches) iterations, iter_idx
\* takes consecutive values from start_iter (1, or count_start_iter of the
\* loaded checkpoint) and never exceeds n_iters + n_iters_decay, and
\* tracker.close is called exactly once, after the last iteration.
C22_RunTerminates == []TrainerRunSafe /\ <>(t_pc = "done")

\* A run resumed from a checkpoint that ended after two iterations because
\* the loader ran out of batches before the indices did.
C22_Witness ==
    /\ t_pc = "done"
    /\ conf.load_checkpoint /\ conf.count_start_iter = 2
    /\ IndicesSet = <<2, 3>>
    /\ LastIndex = 4
    /\ loader.yields = 2
    /\ closes = 1

\* The calls of one iteration with index i, in the order of the claim.
IterationSteps(i) ==
    <<<<"set_iter_idx", i>>, <<"optimize", i>>, <<"log", i>>>>
      \o (IF conf.is_main /\ i % conf.checkpoint_freq = 0
          THEN <<<<"checkpoint", i>>>> ELSE <<>>)
      \o <<<<"scheduler", i>>>>

RECURSIVE IterationsFrom(_, _)
IterationsFrom(i, n) ==
    IF n = 0 THEN <<>> ELSE IterationSteps(i) \o IterationsFrom(i + 1, n - 1)

\* C23: in every Trainer iteration the calls occur in the order set iteration
\* index, optimize, log, checkpoint, scheduler step; a checkpoint is saved in
\* an iteration iff the process is the main process and iter_idx is a multiple
\* of checkpoint_freq, under the iter_idx of that iteration and before its
\* learning-rate update.
C23_IterationOrderAndCheckpoint ==
    /\ t_pc \in {"zip", "close"} =>
          trace = IterationsFrom(FirstIndex, Len(IndicesSet))
    /\ t_pc \in {"optimize", "log", "checkpoint", "scheduler"} =>
          /\ Len(trace) <= Len(IterationsFrom(FirstIndex, Len(IndicesSet)))
          /\ trace = SubSeq(IterationsFrom(FirstIndex, Len(IndicesSet)), 1, Len(trace))

\* The main process between two iterations, after one that saved a checkpoint
\* and one that did not.
C23_Witness ==
    /\ t_pc = "zip"
    /\ conf.is_main /\ conf.checkpoint_freq = 2
    /\ IndicesSet = <<1, 2>>
    /\ <<"checkpoint", 2>> \in Elems(trace)
    /\ <<"checkpoint", 1>> \notin Elems(trace)

====
